---- MODULE Spec2Model ----
(***************************************************************************)
(* The Python binding of the translator (python/translator.cc): the        *)
(* TranslatorWrapper methods translate_batch and translate_file, the       *)
(* conversions between Python objects and native vectors, and the          *)
(* TranslatorPool they drive.  The pool (ctranslate2/translator_pool.h),   *)
(* its workers, its streaming consumer and the inference engine are not    *)
(* part of translator.cc; they are modelled from the design document.      *)
(***************************************************************************)
EXTENDS Integers, Sequences, FiniteSets, TLC

(***************************************************************************)
(* Bounds of the model.                                                    *)
(***************************************************************************)
\* inter_threads: the number of workers the pool is constructed with
NumWorkers == 2
\* the longest source / target-prefix list a caller passes
MaxLen == 3
\* the largest max_batch_size / read_batch_size a caller passes
MaxBatch == 2
\* the longest input file (in lines)
MaxLines == 4
\* the longest source list of the calls that run concurrently
MaxConcurrentLen == 2

\* the Python threads that call translate_batch concurrently (the GIL is
\* released around the pool call, so calls overlap)
Clients == {"t1", "t2"}

Workers == 1..NumWorkers

(***************************************************************************)
(* Defaults of the Python arguments (PYBIND11_MODULE).                     *)
(***************************************************************************)
DefaultBeamSize == 2
DefaultMaxDecodingLength == 250
DefaultMinDecodingLength == 1
DefaultSamplingTopk == 1

\* the sub-batch size the pool uses when options.max_batch_size is 0
PoolDefaultBatchSize == 2

(***************************************************************************)
(* Python objects.  A Python value is a tagged record, a native value is a *)
(* plain TLA+ value, so that the conversions between them do something.    *)
(***************************************************************************)
PyNone == [t |-> "None"]
PyStr(s) == [t |-> "str", v |-> s]
PyNum(n) == [t |-> "num", v |-> n]
PyList(s) == [t |-> "list", v |-> s]
PyDict(d) == [t |-> "dict", v |-> d]
PyTuple(s) == [t |-> "tuple", v |-> s]

IsNone(o) == o.t = "None"

\* py::len: defined on lists; any other object raises TypeError (-1 here)
py_len(o) == IF o.t = "list" THEN Len(o.v) ELSE -1

\* std_vector_to_py_list<std::string>: every string wrapped as a Python str
std_vector_to_py_list(v) == PyList([i \in 1..Len(v) |-> PyStr(v[i])])

\* std_vector_to_py_list<T> for a vector of numbers
std_vector_to_py_list_num(v) == PyList([i \in 1..Len(v) |-> PyNum(v[i])])

\* py_list_to_std_vector: every element cast to std::string
py_list_to_std_vector(l) == [i \in 1..Len(l.v) |-> l.v[i].v]

\* mutant of batch_to_vector: the optional flag is ignored, a None entry always throws
batch_to_vector_strict(l, optional) ==
  IF IsNone(l) THEN [err |-> FALSE, v |-> <<>>]
  ELSE IF \E i \in 1..Len(l.v) : IsNone(l.v[i])
       THEN [err |-> TRUE, v |-> <<>>]
       ELSE [err |-> FALSE, v |-> [i \in 1..Len(l.v) |-> py_list_to_std_vector(l.v[i])]]

\* mutant of batch_to_vector: a None entry of an optional list is skipped
batch_to_vector_skip(l, optional) ==
  IF IsNone(l) THEN [err |-> FALSE, v |-> <<>>]
  ELSE IF (~optional) /\ \E i \in 1..Len(l.v) : IsNone(l.v[i])
       THEN [err |-> TRUE, v |-> <<>>]
       ELSE LET keep == SelectSeq(l.v, LAMBDA h : ~IsNone(h))
            IN [err |-> FALSE, v |-> [i \in 1..Len(keep) |-> py_list_to_std_vector(keep[i])]]

\* batch_to_vector: None gives the empty vector; a None entry gives an empty
\* sequence when optional and throws std::invalid_argument otherwise
batch_to_vector(l, optional) ==
  IF IsNone(l) THEN [err |-> FALSE, v |-> <<>>]
  ELSE IF (~optional) /\ \E i \in 1..Len(l.v) : IsNone(l.v[i])
       THEN [err |-> TRUE, v |-> <<>>]
       ELSE [err |-> FALSE,
             v |-> [i \in 1..Len(l.v) |->
                      IF IsNone(l.v[i]) THEN <<>> ELSE py_list_to_std_vector(l.v[i])]]

\* mutant of EmptySourceCheck: the None test is missing, py::len(None) raises
EmptySourceCheckLenOnly(source) ==
  IF py_len(source) < 0 THEN "TypeError"
  ELSE IF py_len(source) = 0 THEN "empty" ELSE "nonempty"

\* source.is(py::none()) || py::len(source) == 0
EmptySourceCheck(source) ==
  IF IsNone(source) THEN "empty"
  ELSE IF py_len(source) < 0 THEN "TypeError"
  ELSE IF py_len(source) = 0 THEN "empty" ELSE "nonempty"

\* mutant of TranslationOptions: max_batch_size is not copied (stays 0)
TranslationOptionsNoBatch(max_batch_size, num_hypotheses, return_attention) ==
  [max_batch_size |-> 0,
   beam_size |-> DefaultBeamSize,
   num_hypotheses |-> num_hypotheses,
   max_decoding_length |-> DefaultMaxDecodingLength,
   min_decoding_length |-> DefaultMinDecodingLength,
   sampling_topk |-> DefaultSamplingTopk,
   return_attention |-> return_attention]

\* the options object the wrapper fills from its arguments (the arguments the
\* model does not vary keep their Python defaults)
TranslationOptions(max_batch_size, num_hypotheses, return_attention) ==
  [max_batch_size |-> max_batch_size,
   beam_size |-> DefaultBeamSize,
   num_hypotheses |-> num_hypotheses,
   max_decoding_length |-> DefaultMaxDecodingLength,
   min_decoding_length |-> DefaultMinDecodingLength,
   sampling_topk |-> DefaultSamplingTopk,
   return_attention |-> return_attention]

(***************************************************************************)
(* The inference engine: one TranslationResult per source sequence.        *)
(***************************************************************************)
Decode(seq, prefix, options) ==
  LET hyp(k) == prefix \o seq \o <<"#">> \o [i \in 1..(k - 1) |-> "~"]
  IN [hypotheses |-> [k \in 1..options.num_hypotheses |-> hyp(k)],
      scores |-> [k \in 1..options.num_hypotheses |-> 0 - k],
      attention |-> IF options.return_attention
                    THEN [k \in 1..options.num_hypotheses |->
                            [t \in 1..Len(hyp(k)) |-> [s \in 1..Len(seq) |-> 1]]]
                    ELSE <<>>]

\* one element of py_results: the list of hypothesis dicts of one result
PyResult(result) ==
  PyList([i \in 1..Len(result.hypotheses) |->
     IF result.attention # <<>>
     THEN PyDict([score |-> PyNum(result.scores[i]),
                  tokens |-> std_vector_to_py_list(result.hypotheses[i]),
                  attention |-> PyList([a \in 1..Len(result.attention[i]) |->
                                   std_vector_to_py_list_num(result.attention[i][a])])])
     ELSE PyDict([score |-> PyNum(result.scores[i]),
                  tokens |-> std_vector_to_py_list(result.hypotheses[i])])])

\* mutant of to_py_results: the results are appended in reverse
to_py_results_reversed(results) ==
  PyList([i \in 1..Len(results) |-> PyResult(results[Len(results) + 1 - i])])

\* the loop that builds py_results from the pool's results, in their order
to_py_results(results) ==
  PyList([i \in 1..Len(results) |-> PyResult(results[i])])

(***************************************************************************)
(* State.                                                                  *)
(***************************************************************************)
VARIABLES
  calls,     \* per Python thread: its translate_batch call (arguments, locals, outcome)
  requests,  \* the pool's pending-request table, in order of submission
  jobs,      \* every sub-batch ever dispatched, in order of dispatch
  queue,     \* the work queue: indices into jobs
  running,   \* per worker: the sub-batches it is executing
  file       \* the translate_file call and its streaming consumer

vars == <<calls, requests, jobs, queue, running, file>>

IdleCall ==
  [pc |-> "idle", source |-> PyNone, target_prefix |-> PyNone,
   max_batch_size |-> 0, num_hypotheses |-> 1, return_attention |-> FALSE,
   converted |-> FALSE, source_input |-> <<>>, target_prefix_input |-> <<>>,
   req |-> 0, ret |-> PyNone, err |-> ""]

IdleFile ==
  [pc |-> "idle", input |-> <<>>, pos |-> 0,
   max_batch_size |-> 0, arg_read_batch_size |-> 0, read_batch_size |-> 0,
   options |-> TranslationOptions(0, 1, FALSE), with_scores |-> FALSE,
   pending |-> <<>>, output |-> <<>>, num_tokens |-> 0,
   ret |-> PyNone, err |-> ""]

Init ==
  /\ calls = [c \in Clients |-> IdleCall]
  /\ requests = <<>>
  /\ jobs = <<>>
  /\ queue = <<>>
  /\ running = [w \in Workers |-> {}]
  /\ file = IdleFile

(***************************************************************************)
(* The translator pool: post.                                              *)
(***************************************************************************)
Min(a, b) == IF a < b THEN a ELSE b

\* the sub-batch size of a request
SubBatchSize(options) ==
  IF options.max_batch_size # 0 THEN options.max_batch_size ELSE PoolDefaultBatchSize

\* the index ranges of the sub-batches of elements from+1..n, n elements in all
RECURSIVE Partition(_, _, _)
Partition(from, n, size) ==
  IF from >= n THEN <<>>
  ELSE <<[lo |-> from + 1, hi |-> Min(from + size, n)]>>
         \o Partition(Min(from + size, n), n, size)

\* a target prefix that is present but not of the source's length is refused
PostInvalid(source, target_prefix) ==
  target_prefix # <<>> /\ Len(target_prefix) # Len(source)

\* the sub-batches of request r, each with its slice of the source and the prefix
\* (overtook and inflight record, when the sub-batch ends, the requests that
\* still had an earlier sub-batch unfinished and the requests still pending)
NewJobs(r, source, target_prefix, options) ==
  LET ranges == Partition(0, Len(source), SubBatchSize(options))
  IN [k \in 1..Len(ranges) |->
        [req |-> r, lo |-> ranges[k].lo, hi |-> ranges[k].hi,
         source |-> SubSeq(source, ranges[k].lo, ranges[k].hi),
         target_prefix |-> IF target_prefix = <<>> THEN <<>>
                           ELSE SubSeq(target_prefix, ranges[k].lo, ranges[k].hi),
         state |-> "queued", res |-> <<>>, overtook |-> {}, inflight |-> {}]]

NewRequest(source, target_prefix, options) ==
  [source |-> source, target_prefix |-> target_prefix, options |-> options,
   future |-> IF source = <<>> THEN [state |-> "ready", value |-> <<>>]
              ELSE [state |-> "pending", value |-> <<>>]]

\* post: the request enters the table and its sub-batches the work queue
Post(source, target_prefix, options) ==
  LET r == Len(requests) + 1
      new == NewJobs(r, source, target_prefix, options)
  IN /\ requests' = Append(requests, NewRequest(source, target_prefix, options))
     /\ jobs' = jobs \o new
     /\ queue' = queue \o [k \in 1..Len(new) |-> Len(jobs) + k]

JobsOf(r) == {j \in 1..Len(jobs) : jobs[j].req = r}

PendingRequests == {r \in 1..Len(requests) : requests[r].future.state = "pending"}

(***************************************************************************)
(* translate_batch, up to the blocking get().                              *)
(***************************************************************************)
translate_batch(c, source, target_prefix, max_batch_size, num_hypotheses, return_attention) ==
  /\ calls[c].pc = "idle"
  /\ UNCHANGED <<running, file>>
  /\ LET args == [calls[c] EXCEPT !.source = source, !.target_prefix = target_prefix,
                                  !.max_batch_size = max_batch_size,
                                  !.num_hypotheses = num_hypotheses,
                                  !.return_attention = return_attention]
         chk == EmptySourceCheck(source)
         si == batch_to_vector(source, FALSE)
         ti == batch_to_vector(target_prefix, TRUE)
         options == TranslationOptions(max_batch_size, num_hypotheses, return_attention)
     IN CASE chk = "TypeError" ->
               /\ calls' = [calls EXCEPT ![c] = [args EXCEPT !.pc = "raised", !.err = "TypeError"]]
               /\ UNCHANGED <<requests, jobs, queue>>
          [] chk = "empty" ->
               /\ calls' = [calls EXCEPT ![c] = [args EXCEPT !.pc = "returned", !.ret = PyList(<<>>)]]
               /\ UNCHANGED <<requests, jobs, queue>>
          [] chk = "nonempty" /\ (si.err \/ ti.err) ->
               /\ calls' = [calls EXCEPT ![c] = [args EXCEPT !.pc = "raised", !.err = "invalid_argument"]]
               /\ UNCHANGED <<requests, jobs, queue>>
          [] chk = "nonempty" /\ ~si.err /\ ~ti.err /\ PostInvalid(si.v, ti.v) ->
               /\ calls' = [calls EXCEPT ![c] =
                    [args EXCEPT !.pc = "raised", !.err = "invalid_argument",
                                 !.converted = TRUE,
                                 !.source_input = si.v, !.target_prefix_input = ti.v]]
               /\ UNCHANGED <<requests, jobs, queue>>
          [] OTHER ->
               /\ calls' = [calls EXCEPT ![c] =
                    [args EXCEPT !.pc = "waiting", !.req = Len(requests) + 1,
                                 !.converted = TRUE,
                                 !.source_input = si.v, !.target_prefix_input = ti.v]]
               /\ Post(si.v, ti.v, options)

(***************************************************************************)
(* The workers.                                                            *)
(***************************************************************************)
\* mutant of WorkerIdle: a worker pulls whether or not it is running a sub-batch
WorkerAlwaysIdle(w) == TRUE

\* a worker takes the next sub-batch only when it runs none
WorkerIdle(w) == running[w] = {}

WorkerPull(w) ==
  /\ WorkerIdle(w)
  /\ queue # <<>>
  /\ running' = [running EXCEPT ![w] = @ \cup {Head(queue)}]
  /\ jobs' = [jobs EXCEPT ![Head(queue)].state = "running"]
  /\ queue' = Tail(queue)
  /\ UNCHANGED <<calls, requests, file>>

\* the results of request r in index order, from the index range of each sub-batch
Reassemble(r, js) ==
  [i \in 1..Len(requests[r].source) |->
     LET j == CHOOSE k \in JobsOf(r) : js[k].lo <= i /\ i <= js[k].hi
     IN js[j].res[i - js[j].lo + 1]]

\* the future of request r once sub-batch j ended as js[j] says
FutureAfter(r, js, j) ==
  IF requests[r].future.state # "pending" THEN requests[r].future
  ELSE IF js[j].state = "fault" THEN [state |-> "failed", value |-> <<>>]
  ELSE IF \A k \in JobsOf(r) : js[k].state = "done"
       THEN [state |-> "ready", value |-> Reassemble(r, js)]
       ELSE requests[r].future

\* the engine run of sub-batch j
RunJob(j) ==
  [i \in 1..Len(jobs[j].source) |->
     Decode(jobs[j].source[i],
            IF jobs[j].target_prefix = <<>> THEN <<>> ELSE jobs[j].target_prefix[i],
            requests[jobs[j].req].options)]

\* a worker ends a sub-batch: with its results, or with an engine fault
WorkerFinish(w, j, ok) ==
  /\ j \in running[w]
  /\ LET early == {jobs[k].req : k \in {i \in 1..(j - 1) : jobs[i].state \in {"queued", "running"}}}
         js == [jobs EXCEPT ![j] =
                  IF ok THEN [@ EXCEPT !.state = "done", !.res = RunJob(j), !.overtook = early]
                  ELSE [@ EXCEPT !.state = "fault", !.overtook = early,
                                 !.inflight = PendingRequests \ {jobs[j].req}]]
     IN /\ jobs' = js
        /\ requests' = [requests EXCEPT ![jobs[j].req].future = FutureAfter(jobs[j].req, js, j)]
  /\ running' = [running EXCEPT ![w] = @ \ {j}]
  /\ UNCHANGED <<calls, queue, file>>

(***************************************************************************)
(* translate_batch, from get() on.                                         *)
(***************************************************************************)
\* mutant of FutureOf: the call waits on the most recently posted request
FutureOfLatest(c) == requests[Len(requests)].future

\* the future post() returned to call c
FutureOf(c) == requests[calls[c].req].future

\* mutant of GetResults: a failed request hands over what a completed sub-batch produced
GetResultsPartial(c) ==
  LET done == {j \in JobsOf(calls[c].req) : jobs[j].state = "done"}
  IN IF FutureOf(c).state = "failed"
     THEN [err |-> "",
           value |-> IF done = {} THEN <<>> ELSE jobs[CHOOSE j \in done : TRUE].res]
     ELSE [err |-> "", value |-> FutureOf(c).value]

\* future.get(): the results, or the fault rethrown
GetResults(c) ==
  IF FutureOf(c).state = "failed"
  THEN [err |-> "EngineFault", value |-> <<>>]
  ELSE [err |-> "", value |-> FutureOf(c).value]

translate_batch_return(c) ==
  /\ calls[c].pc = "waiting"
  /\ FutureOf(c).state # "pending"
  /\ LET got == GetResults(c)
     IN calls' = [calls EXCEPT ![c] =
          IF got.err # "" THEN [@ EXCEPT !.pc = "raised", !.err = got.err]
          ELSE [@ EXCEPT !.pc = "returned", !.ret = to_py_results(got.value)]]
  /\ UNCHANGED <<requests, jobs, queue, running, file>>

(***************************************************************************)
(* translate_file and the streaming consumer.                              *)
(***************************************************************************)
\* if (read_batch_size == 0) read_batch_size = max_batch_size;
ReadBatchSize(read_batch_size, max_batch_size) ==
  IF read_batch_size = 0 THEN max_batch_size ELSE read_batch_size

translate_file(lines, max_batch_size, read_batch_size, with_scores) ==
  /\ file.pc = "idle"
  /\ file' = [file EXCEPT !.pc = "reading", !.input = lines,
                          !.max_batch_size = max_batch_size,
                          !.arg_read_batch_size = read_batch_size,
                          !.read_batch_size = ReadBatchSize(read_batch_size, max_batch_size),
                          !.options = TranslationOptions(max_batch_size, 1, FALSE),
                          !.with_scores = with_scores]
  /\ UNCHANGED <<calls, requests, jobs, queue, running>>

\* the reader's loop: lines are added to the batch until it holds size lines
\* or the input ends
RECURSIVE TakeLines(_, _, _, _)
TakeLines(input, pos, batch, size) ==
  IF pos = Len(input) THEN [pos |-> pos, batch |-> batch]
  ELSE LET b == Append(batch, input[pos + 1])
       IN IF Len(b) = size THEN [pos |-> pos + 1, batch |-> b]
          ELSE TakeLines(input, pos + 1, b, size)

RECURSIVE CountTokens(_)
CountTokens(batch) ==
  IF batch = <<>> THEN 0 ELSE Len(Head(batch)) + CountTokens(Tail(batch))

\* the consumer reads the next batch and submits it; at the end of the input
\* it goes on to wait for the batches still pending
ConsumeRead ==
  /\ file.pc = "reading"
  /\ LET t == TakeLines(file.input, file.pos, <<>>, file.read_batch_size)
     IN IF t.batch = <<>>
        THEN /\ file' = [file EXCEPT !.pc = "draining"]
             /\ UNCHANGED <<requests, jobs, queue>>
        ELSE /\ Post(t.batch, <<>>, file.options)
             /\ file' = [file EXCEPT !.pos = t.pos,
                                     !.pending = Append(@, Len(requests) + 1),
                                     !.num_tokens = @ + CountTokens(t.batch),
                                     !.pc = IF t.pos = Len(file.input)
                                            THEN "draining" ELSE "reading"]
  /\ UNCHANGED <<calls, running>>

\* the line written for one result: its best hypothesis, with its score if asked
OutputLine(result, with_scores) ==
  [tokens |-> result.hypotheses[1],
   score |-> IF with_scores THEN <<result.scores[1]>> ELSE <<>>]

\* mutant of WritablePending: any resolved batch may be written
WritableAnyResolved ==
  {i \in 1..Len(file.pending) : requests[file.pending[i]].future.state = "ready"}

\* only the oldest pending batch may be written, once it is resolved
WritablePending ==
  IF file.pending # <<>> /\ requests[Head(file.pending)].future.state = "ready"
  THEN {1} ELSE {}

ConsumeWrite(i) ==
  /\ file.pc \in {"reading", "draining"}
  /\ i \in WritablePending
  /\ LET value == requests[file.pending[i]].future.value
     IN file' = [file EXCEPT
          !.output = @ \o [k \in 1..Len(value) |-> OutputLine(value[k], file.with_scores)],
          !.pending = SubSeq(@, 1, i - 1) \o SubSeq(@, i + 1, Len(@))]
  /\ UNCHANGED <<calls, requests, jobs, queue, running>>

\* a failed batch aborts the stream; what was written stays written
ConsumeFail ==
  /\ file.pc \in {"reading", "draining"}
  /\ file.pending # <<>>
  /\ requests[Head(file.pending)].future.state = "failed"
  /\ file' = [file EXCEPT !.pc = "raised", !.err = "EngineFault"]
  /\ UNCHANGED <<calls, requests, jobs, queue, running>>

\* return py::make_tuple(num_tokens)
translate_file_return ==
  /\ file.pc = "draining"
  /\ file.pending = <<>>
  /\ file' = [file EXCEPT !.pc = "done", !.ret = PyTuple(<<PyNum(file.num_tokens)>>)]
  /\ UNCHANGED <<calls, requests, jobs, queue, running>>

(***************************************************************************)
(* Inputs.                                                                 *)
(***************************************************************************)
SeqsUpTo(S, n) == UNION {[1..k -> S] : k \in 0..n}

\* every source a caller may pass: None, a non-list, and every list of up to
\* MaxLen entries, an entry being None or a one-token sentence
PySources ==
  {PyNone, PyNum(0)}
    \cup {PyList(s) : s \in SeqsUpTo({PyNone, PyList(<<PyStr("a")>>), PyList(<<PyStr("b")>>)}, MaxLen)}

\* every target prefix a caller may pass
PyPrefixes ==
  {PyNone} \cup {PyList(s) : s \in SeqsUpTo({PyNone, PyList(<<PyStr("p")>>)}, MaxLen)}

\* the other options a caller may pass
OptionArgs ==
  {[num_hypotheses |-> 1, return_attention |-> FALSE],
   [num_hypotheses |-> 2, return_attention |-> TRUE]}

\* the well-formed source of n distinct sentences
DistinctSource(n) == PyList([i \in 1..n |-> PyList(<<PyStr(ToString(i))>>)])

\* a target prefix for it: one prefix per sentence, every second one missing
SparsePrefix(n) ==
  PyList([i \in 1..n |-> IF i % 2 = 0 THEN PyNone ELSE PyList(<<PyStr("p"), PyStr(ToString(i))>>)])

\* the input file of n lines
InputLines(n) == [i \in 1..n |-> IF i % 2 = 0 THEN <<ToString(i), "x">> ELSE <<ToString(i)>>]

(***************************************************************************)
(* Specifications.                                                         *)
(***************************************************************************)
Work ==
  \/ \E w \in Workers : WorkerPull(w)
  \/ \E w \in Workers : \E j \in running[w] : \E ok \in BOOLEAN : WorkerFinish(w, j, ok)

\* concurrent well-formed calls of translate_batch
Next ==
  \/ \E c \in Clients :
       /\ calls[c].pc = "idle"
       /\ \E n \in 1..MaxConcurrentLen : \E m \in 1..MaxBatch :
            translate_batch(c, DistinctSource(n), PyNone, m, 1, FALSE)
  \/ Work
  \/ \E c \in Clients : translate_batch_return(c)

Spec == Init /\ [][Next]_vars

\* one call of translate_batch with any arguments
NextArgs ==
  \/ /\ calls["t1"].pc = "idle"
     /\ \E source \in PySources : \E tp \in PyPrefixes : \E m \in 0..MaxBatch :
          \E o \in OptionArgs :
            translate_batch("t1", source, tp, m, o.num_hypotheses, o.return_attention)
  \/ Work
  \/ translate_batch_return("t1")

SpecArgs == Init /\ [][NextArgs]_vars

\* one call of translate_file
NextFile ==
  \/ /\ file.pc = "idle"
     /\ \E n \in 0..MaxLines : \E m \in 0..MaxBatch : \E rb \in 0..MaxBatch :
          \E ws \in BOOLEAN :
            translate_file(InputLines(n), m, rb, ws)
  \/ ConsumeRead
  \/ \E i \in WritablePending : ConsumeWrite(i)
  \/ ConsumeFail
  \/ translate_file_return
  \/ Work

SpecFile == Init /\ [][NextFile]_vars

(***************************************************************************)
(* Properties.                                                             *)
(***************************************************************************)
CallDone(c) == calls[c].pc \in {"returned", "raised"}

IsList(o) == o.t = "list"

HasNoneEntry(l) == \E i \in 1..Len(l.v) : IsNone(l.v[i])

\* a source list that passes the wrapper's own checks
WellFormedSource(o) == IsList(o) /\ Len(o.v) > 0 /\ ~HasNoneEntry(o)

\* the tokens of entry i of a Python list of sentences, a missing one being empty
TokensAt(l, i) ==
  IF IsNone(l.v[i]) THEN <<>> ELSE [k \in 1..Len(l.v[i].v) |-> l.v[i].v[k].v]

\* the prefix the engine is to use for sentence i of call c
PrefixAt(c, i) ==
  IF IsNone(calls[c].target_prefix) \/ py_len(calls[c].target_prefix) = 0 THEN <<>>
  ELSE TokensAt(calls[c].target_prefix, i)

\* the options call c asked for
AskedOptions(c) ==
  [max_batch_size |-> calls[c].max_batch_size,
   beam_size |-> DefaultBeamSize,
   num_hypotheses |-> calls[c].num_hypotheses,
   max_decoding_length |-> DefaultMaxDecodingLength,
   min_decoding_length |-> DefaultMinDecodingLength,
   sampling_topk |-> DefaultSamplingTopk,
   return_attention |-> calls[c].return_attention]

\* what element i of the list call c returns must be: the result for source[i]
ExpectedAt(c, i) ==
  PyResult(Decode(TokensAt(calls[c].source, i), PrefixAt(c, i), AskedOptions(c)))

\* the result list of call c is complete and in the order of its source
FullOrderedResult(c) ==
  /\ IsList(calls[c].ret)
  /\ Len(calls[c].ret.v) = Len(calls[c].source.v)
  /\ \A i \in 1..Len(calls[c].source.v) : calls[c].ret.v[i] = ExpectedAt(c, i)

\* C1: a call of translate_batch on a non-empty batch that returns, returns a
\* list as long as the batch whose i-th element is the result for the i-th
\* source sentence, in whatever order the workers ended its sub-batches.
C1_ResultsInSourceOrder ==
  \A c \in Clients :
    (calls[c].pc = "returned" /\ IsList(calls[c].source) /\ Len(calls[c].source.v) > 0)
      => FullOrderedResult(c)

\* C1 witness: a call returned three results although a later sub-batch of
\* its request ended before an earlier one.
C1_Witness ==
  \E c \in Clients :
    /\ calls[c].pc = "returned"
    /\ calls[c].req # 0
    /\ Len(calls[c].source.v) = 3
    /\ calls[c].source.v[1] # calls[c].source.v[3]
    /\ \E j \in JobsOf(calls[c].req) : calls[c].req \in jobs[j].overtook

\* C2: a call whose source is None or has length zero returns the empty list,
\* and nothing of it reaches the pool: no request, no sub-batch, no worker run.
C2_EmptySourceReturnsEmpty ==
  \A c \in Clients :
    (calls[c].pc # "idle" /\ (IsNone(calls[c].source) \/ py_len(calls[c].source) = 0))
      => /\ calls[c].pc = "returned"
         /\ calls[c].ret = PyList(<<>>)
         /\ calls[c].req = 0
         /\ requests = <<>> /\ jobs = <<>> /\ \A w \in Workers : running[w] = {}

\* C2 witness: an empty source list with a non-empty target prefix and
\* non-default options returned the empty list.
C2_Witness ==
  \E c \in Clients :
    /\ calls[c].pc = "returned"
    /\ calls[c].source = PyList(<<>>)
    /\ IsList(calls[c].target_prefix) /\ Len(calls[c].target_prefix.v) = 2
    /\ calls[c].max_batch_size = 1 /\ calls[c].num_hypotheses = 2
    /\ calls[c].ret = PyList(<<>>)

\* the call failed with InvalidArgument and dispatched nothing
RefusedAsInvalid(c) ==
  /\ calls[c].pc = "raised"
  /\ calls[c].err = "invalid_argument"
  /\ calls[c].req = 0
  /\ requests = <<>> /\ jobs = <<>> /\ \A w \in Workers : running[w] = {}

\* C3 as stated: a call (on a non-empty batch) whose target-prefix list is
\* present and not of the source's length fails with InvalidArgument and
\* dispatches nothing.
C3_AsStated ==
  \A c \in Clients :
    (/\ calls[c].pc # "idle"
     /\ IsList(calls[c].source) /\ Len(calls[c].source.v) > 0
     /\ IsList(calls[c].target_prefix)
     /\ Len(calls[c].target_prefix.v) # Len(calls[c].source.v))
      => RefusedAsInvalid(c)

\* C3 amended: a call with a non-empty source list and a non-empty
\* target-prefix list of another length fails with InvalidArgument and
\* dispatches nothing.
C3_NonEmptyMismatchRefused ==
  \A c \in Clients :
    (/\ calls[c].pc # "idle"
     /\ IsList(calls[c].source) /\ Len(calls[c].source.v) > 0
     /\ IsList(calls[c].target_prefix) /\ Len(calls[c].target_prefix.v) > 0
     /\ Len(calls[c].target_prefix.v) # Len(calls[c].source.v))
      => RefusedAsInvalid(c)

\* C3 witness: both lists were converted without error, the prefix (with a
\* missing entry) is shorter than the source, and the call was refused.
C3_Witness ==
  \E c \in Clients :
    /\ RefusedAsInvalid(c)
    /\ calls[c].converted
    /\ WellFormedSource(calls[c].source) /\ Len(calls[c].source.v) = 3
    /\ IsList(calls[c].target_prefix) /\ Len(calls[c].target_prefix.v) = 2
    /\ HasNoneEntry(calls[c].target_prefix)

\* the rank of sub-batch j among the sub-batches of its request
RankOf(j) == Cardinality({k \in JobsOf(jobs[j].req) : k <= j})

\* C4: a dispatched call of N sentences with max_batch_size m > 0 has exactly
\* ceil(N/m) sub-batches; the k-th holds the sentences (k-1)m+1 .. min(km, N)
\* of the source, in order, and the same range of the target prefix if there
\* is one.
C4_SplitIntoContiguousSubBatches ==
  \A c \in Clients :
    (calls[c].req # 0 /\ calls[c].max_batch_size > 0) =>
      LET m == calls[c].max_batch_size
          N == Len(calls[c].source.v)
          J == JobsOf(calls[c].req)
      IN /\ Cardinality(J) * m >= N
         /\ (Cardinality(J) - 1) * m < N
         /\ \A j \in J :
              /\ jobs[j].lo = (RankOf(j) - 1) * m + 1
              /\ jobs[j].hi = Min(RankOf(j) * m, N)
              /\ Len(jobs[j].source) = jobs[j].hi - jobs[j].lo + 1
              /\ Len(jobs[j].source) >= 1 /\ Len(jobs[j].source) <= m
              /\ \A i \in jobs[j].lo..jobs[j].hi :
                   /\ jobs[j].source[i - jobs[j].lo + 1] = TokensAt(calls[c].source, i)
                   /\ py_len(calls[c].target_prefix) > 0 =>
                        /\ Len(jobs[j].target_prefix) = Len(jobs[j].source)
                        /\ jobs[j].target_prefix[i - jobs[j].lo + 1] = PrefixAt(c, i)
         /\ \A i \in 1..N : \E j \in J : jobs[j].lo <= i /\ i <= jobs[j].hi

\* C4 witness: three sentences with a prefix each and max_batch_size 2 were
\* split into two sub-batches, the second one short.
C4_Witness ==
  \E c \in Clients :
    /\ calls[c].req # 0
    /\ calls[c].max_batch_size = 2
    /\ Len(calls[c].source.v) = 3
    /\ IsList(calls[c].target_prefix) /\ ~HasNoneEntry(calls[c].target_prefix)
    /\ Cardinality(JobsOf(calls[c].req)) = 2
    /\ \E j \in JobsOf(calls[c].req) : jobs[j].lo = 3 /\ jobs[j].target_prefix = <<<<"p">>>>

\* some sub-batch of the request of call c ended with an engine fault
OwnFault(c) == \E j \in JobsOf(calls[c].req) : jobs[j].state = "fault"

\* C6: once a sub-batch of a call's request has faulted, the call never
\* returns a list: it is still waiting, or it raised the engine fault, and
\* no result of the request's completed sub-batches is handed to the caller.
C6_FaultRaisesWithoutPartialResults ==
  \A c \in Clients :
    (calls[c].req # 0 /\ OwnFault(c)) =>
      /\ calls[c].pc \in {"waiting", "raised"}
      /\ calls[c].pc = "raised" => calls[c].err = "EngineFault"
      /\ calls[c].ret = PyNone

\* C6 witness: a call raised the fault although another sub-batch of its
\* request had completed with results.
C6_Witness ==
  \E c \in Clients :
    /\ calls[c].pc = "raised" /\ calls[c].err = "EngineFault"
    /\ \E j \in JobsOf(calls[c].req) : jobs[j].state = "done" /\ jobs[j].res # <<>>
    /\ OwnFault(c)

\* what batch_to_vector is to make of the target prefix of call c
ExpectedPrefixInput(c) ==
  IF IsNone(calls[c].target_prefix) THEN <<>>
  ELSE [i \in 1..Len(calls[c].target_prefix.v) |-> TokensAt(calls[c].target_prefix, i)]

\* C9: a None entry in a non-empty source list raises InvalidArgument with
\* nothing dispatched; with a well-formed source, the target prefix is passed
\* on entry by entry, a None entry as the empty sequence at the same index and
\* an absent list as the empty list, and the call raises InvalidArgument only
\* when the prefix passed on is non-empty and not of the source's length.
C9_NoneEntries ==
  \A c \in Clients :
    /\ (calls[c].pc # "idle" /\ IsList(calls[c].source) /\ Len(calls[c].source.v) > 0
          /\ HasNoneEntry(calls[c].source))
         => RefusedAsInvalid(c) /\ ~calls[c].converted
    /\ (calls[c].pc # "idle" /\ WellFormedSource(calls[c].source))
         => /\ calls[c].converted
            /\ calls[c].target_prefix_input = ExpectedPrefixInput(c)
            /\ Len(calls[c].source_input) = Len(calls[c].source.v)
            /\ (calls[c].pc = "raised" /\ calls[c].err = "invalid_argument")
                 => /\ calls[c].target_prefix_input # <<>>
                    /\ Len(calls[c].target_prefix_input) # Len(calls[c].source_input)

\* C9 witness: a call whose target prefix has a None entry beside a real one
\* returned its results.
C9_Witness ==
  \E c \in Clients :
    /\ calls[c].pc = "returned"
    /\ WellFormedSource(calls[c].source) /\ Len(calls[c].source.v) = 2
    /\ IsList(calls[c].target_prefix) /\ Len(calls[c].target_prefix.v) = 2
    /\ IsNone(calls[c].target_prefix.v[1]) /\ ~IsNone(calls[c].target_prefix.v[2])
    /\ calls[c].target_prefix_input = << <<>>, <<"p">> >>

\* the call that posted request r
CallerOf(r) == CHOOSE c \in Clients : calls[c].req = r

\* C7: a call ends with the engine fault exactly when a sub-batch of its own
\* request faulted; a request none of whose sub-batches faulted is resolved
\* as soon as they are all done and its call returns the full ordered list,
\* whatever happened to the other requests, before or while it was in flight.
C7_FaultFailsOnlyItsRequest ==
  \A c \in Clients :
    calls[c].req # 0 =>
      /\ (CallDone(c) /\ OwnFault(c))
           => calls[c].pc = "raised" /\ calls[c].err = "EngineFault"
      /\ (CallDone(c) /\ ~OwnFault(c))
           => calls[c].pc = "returned" /\ FullOrderedResult(c)
      /\ (\A j \in JobsOf(calls[c].req) : jobs[j].state = "done")
           => /\ requests[calls[c].req].future.state = "ready"
              /\ ENABLED translate_batch_return(c) \/ calls[c].pc = "returned"

\* C7 witness: a sub-batch faulted while another request was pending; its own
\* call raised, and the call of the other request returned its full list.
C7_Witness ==
  \E j \in 1..Len(jobs) :
    /\ jobs[j].state = "fault"
    /\ calls[CallerOf(jobs[j].req)].pc = "raised"
    /\ \E r \in jobs[j].inflight :
         /\ calls[CallerOf(r)].pc = "returned"
         /\ Len(calls[CallerOf(r)].source.v) = 2
         /\ FullOrderedResult(CallerOf(r))

\* C10: every worker runs at most one sub-batch at a time, the sub-batches
\* being run are run by one worker each, and none of them is still queued.
C10_OneSubBatchPerWorker ==
  /\ \A w \in Workers : Cardinality(running[w]) <= 1
  /\ \A w1, w2 \in Workers : w1 # w2 => running[w1] \cap running[w2] = {}
  /\ \A w \in Workers : \A j \in running[w] :
       jobs[j].state = "running" /\ \A k \in 1..Len(queue) : queue[k] # j

\* C10 witness: every worker is running a sub-batch, of two different
\* requests, while more sub-batches wait in the queue.
C10_Witness ==
  /\ \A w \in Workers : Cardinality(running[w]) = 1
  /\ \E w1, w2 \in Workers : \E j1 \in running[w1] : \E j2 \in running[w2] :
       jobs[j1].req # jobs[j2].req
  /\ queue # <<>>

\* the line the output must hold for input line k
ExpectedLine(k) ==
  [tokens |-> file.input[k] \o <<"#">>,
   score |-> IF file.with_scores THEN <<0 - 1>> ELSE <<>>]

\* the input lines of the batches submitted before request r
RECURSIVE LinesBefore(_)
LinesBefore(r) ==
  IF r = 1 THEN 0 ELSE Len(requests[r - 1].source) + LinesBefore(r - 1)

\* C5: at every moment the output is the translation of a prefix of the input,
\* line for line and in input order, that ends at a batch boundary: it holds
\* all the lines of the batches before the oldest pending one and none of the
\* later ones.  When translate_file has returned, the output has all L lines.
C5_OutputInInputOrder ==
  /\ Len(file.output) <= Len(file.input)
  /\ \A k \in 1..Len(file.output) : file.output[k] = ExpectedLine(k)
  /\ file.pending # <<>> => Len(file.output) = LinesBefore(Head(file.pending))
  /\ file.pending = <<>> => Len(file.output) = file.pos
  /\ file.pc = "done" =>
       /\ Len(file.output) = Len(file.input)
       /\ file.ret = PyTuple(<<PyNum(CountTokens(file.input))>>)

\* C5 witness: three lines read two at a time; the second, short batch was
\* translated before the first one, and the output still has the three lines.
C5_Witness ==
  /\ file.pc = "done"
  /\ Len(file.input) = 3 /\ file.read_batch_size = 2
  /\ Len(requests) = 2
  /\ \E j \in JobsOf(2) : 1 \in jobs[j].overtook
  /\ Len(file.output) = 3

\* C8 as stated: the window handed to the consumer is read_batch_size when
\* that is nonzero and max_batch_size otherwise, and it is at least 1.
C8_AsStated ==
  file.pc # "idle" =>
    /\ file.arg_read_batch_size # 0 => file.read_batch_size = file.arg_read_batch_size
    /\ file.arg_read_batch_size = 0 => file.read_batch_size = file.max_batch_size
    /\ file.read_batch_size >= 1

====
